---- MODULE Spec2Model ----
(***************************************************************************)
(* Distributed MNIST training script (src/main.py): one process per rank,  *)
(* each running init_process_group, create_data_loaders, main (the DDP     *)
(* training loop) and, on rank 0, torch.save.                              *)
(*                                                                         *)
(* The framework calls the script makes are modelled by their documented   *)
(* behaviour at the call site:                                             *)
(*   - init_process_group blocks until all world_size processes joined the *)
(*     rendezvous, or raises when its (default) timeout elapses;           *)
(*   - DistributedSampler.__iter__ permutes range(len(dataset)) with a     *)
(*     generator seeded seed + epoch, pads the permutation with its own    *)
(*     head up to a multiple of num_replicas (drop_last = False) and gives *)
(*     rank r the elements r, r + num_replicas, ...;                       *)
(*   - DistributedDataParallel broadcasts rank 0's parameters when it is   *)
(*     constructed and averages the gradients of all ranks inside          *)
(*     backward(); the k-th backward() of a rank is matched with the k-th  *)
(*     backward() of every other rank.                                     *)
(*                                                                         *)
(* Floating point values are [fin, val] records: a finite value carries an *)
(* exact integer, every non-finite value (inf, nan) is NaN, which is       *)
(* absorbing under + and -.  Parameters are held in units of               *)
(* lr / world_size, so that param - lr * mean(grads) is param - sum(grads) *)
(* exactly.  Loss sums are held in units of 1 / LossScale so that          *)
(* batch_loss / x.shape[0] is exact.                                       *)
(***************************************************************************)
EXTENDS Integers, Sequences, FiniteSets, TLC

\* ---------------------------------------------------------------- bounds
MaxWorld == 2
MaxData == 3
MaxBatch == 2
MaxEpochs == 2
MaxTest == 2

\* ------------------------------------------------------- program constants
SamplerSeedConst == 42

VARIABLES
    worldSize,    \* WORLD_SIZE of the launch (env://)
    datasetSize,  \* len(train_dataset)
    testSize,     \* len(test_dataset)
    batch_size,   \* create_data_loaders(batch_size)
    epochs,       \* main(epochs=...)
    pc,           \* pc[r]: where the process of rank r is
    arrived,      \* ranks that reached the rendezvous of init_process_group
    param,        \* param[r]: the replica of the model parameters on rank r
    bcast,        \* [sent, val]: rank 0's parameters as broadcast by the DDP constructor
    sampler,      \* sampler[r]: the DistributedSampler's fields on rank r
    shuffled,     \* shuffled[r]: the permutation the sampler's last __iter__ drew
    indices,      \* indices[r]: the index sequence the sampler's last __iter__ returned
    cursor,       \* cursor[r]: samples of indices[r] already consumed by the train loop
    i,            \* i[r]: the epoch loop variable
    epoch_loss,   \* epoch_loss[r]
    val_loss,     \* val_loss[r]
    batch_loss,   \* batch_loss[r]: loss of the batch in flight
    pending,      \* pending[r]: [has, grad]: rank r's contribution to the open all-reduce
    avg,          \* avg[r]: [ready, grad]: the reduced gradient delivered to rank r
    contrib,      \* contrib[r]: number of backward() calls of rank r
    steps,        \* steps[r]: number of optimizer.step() calls of rank r
    rounds,       \* number of completed all-reduces
    logs,         \* logs[r]: [n, last]: lines printed by rank r, and the last one
    writes,       \* writes[r]: number of torch.save calls of rank r
    checkpoint    \* [written, val]: content of model.pt

vars == << worldSize, datasetSize, testSize, batch_size, epochs, pc, arrived,
           param, bcast, sampler, shuffled, indices, cursor, i, epoch_loss,
           val_loss, batch_loss, pending, avg, contrib, steps,
           rounds, logs, writes, checkpoint >>

inputs == << worldSize, datasetSize, testSize, batch_size, epochs >>

Ranks == 0 .. (worldSize - 1)

\* ------------------------------------------------------------ float values
Fin(n) == [fin |-> TRUE, val |-> n]

NaN == [fin |-> FALSE, val |-> 0]

Zero == Fin(0)

FAdd(a, b) == IF a.fin /\ b.fin THEN Fin(a.val + b.val) ELSE NaN

FSub(a, b) == IF a.fin /\ b.fin THEN Fin(a.val - b.val) ELSE NaN

Min(a, b) == IF a <= b THEN a ELSE b

CeilDiv(a, b) == (a + b - 1) \div b

RECURSIVE Factorial(_)
Factorial(n) == IF n <= 1 THEN 1 ELSE n * Factorial(n - 1)

\* Denominator of the loss sums: every batch length 1..MaxBatch divides it.
LossScale == Factorial(MaxBatch)

\* batch_loss_scalar / x.shape[0]
LossPerSample(l, len) == IF l.fin THEN Fin((l.val * LossScale) \div len) ELSE NaN

\* Finite values a cross-entropy batch loss is drawn from (one unit: what the
\* loops do with a loss depends only on whether it is finite).
Losses == {1}

\* Finite values a local gradient is drawn from.
Grads == {1, 2}

\* create_model() draws the initial weights from the process's own unseeded
\* generator: a different value on every rank.
InitialParam(r) == Fin(r)

\* --------------------------------------------------- DistributedSampler
\* Stand-in for torch.Generator: a full-period linear congruential generator.
LcgNext(x) == (x * 5 + 3) % 16

RECURSIVE Shuffle(_, _, _)
Shuffle(seq, k, x) ==
    IF k <= 1 THEN seq
    ELSE LET j == (x % k) + 1
             swapped == [seq EXCEPT ![k] = seq[j], ![j] = seq[k]]
         IN  Shuffle(swapped, k - 1, LcgNext(x))

\* torch.randperm(n, generator=g) with g.manual_seed(s)
RandPerm(n, s) == Shuffle([k \in 1 .. n |-> k - 1], n, LcgNext(s % 16))

RECURSIVE Repeat(_, _)
Repeat(seq, times) == IF times <= 0 THEN << >> ELSE seq \o Repeat(seq, times - 1)

\* Mutant of PadIndices: the permutation is not padded.
PadIndicesNone(ind, total) == ind

\* drop_last = False: indices += indices[:padding_size], or the repeated list
\* when the padding is longer than the list.
PadIndices(ind, total) ==
    LET padding == total - Len(ind)
    IN  IF padding <= Len(ind)
        THEN ind \o SubSeq(ind, 1, padding)
        ELSE ind \o SubSeq(Repeat(ind, CeilDiv(padding, Len(ind))), 1, padding)

\* Mutant of Stride: the slice forgets the rank, indices[0:total_size:num_replicas].
StrideNoRank(ind, rank, total, step) ==
    [k \in 1 .. CeilDiv(Min(total, Len(ind)), step) |-> ind[(k - 1) * step + 1]]

\* indices[rank:total_size:num_replicas]
Stride(ind, rank, total, step) ==
    LET lim == Min(total, Len(ind))
        cnt == IF lim > rank THEN CeilDiv(lim - rank, step) ELSE 0
    IN  [k \in 1 .. cnt |-> ind[rank + (k - 1) * step + 1]]

NumSamples(n, replicas) == CeilDiv(n, replicas)

TotalSize(n, replicas) == NumSamples(n, replicas) * replicas

\* The generator seed of an epoch.
EpochSeed(s) == s.seed + s.epoch

\* DistributedSampler.__iter__
SamplerIter(s, n) ==
    Stride(PadIndices(RandPerm(n, EpochSeed(s)), TotalSize(n, s.num_replicas)),
           s.rank, TotalSize(n, s.num_replicas), s.num_replicas)

\* Mutant of SamplerSeed: the seed depends on the rank.
SamplerSeedPerRank(r) == SamplerSeedConst + r

\* DistributedSampler(train_dataset, shuffle=True, seed=42) on rank r
SamplerSeed(r) == SamplerSeedConst

NewSampler(r) ==
    [seed |-> SamplerSeed(r), epoch |-> 0, rank |-> r, num_replicas |-> worldSize]

\* Mutant of SetEpoch: set_epoch is forgotten.
SetEpochForgotten(s, e) == s

\* train_loader.sampler.set_epoch(e)
SetEpoch(s, e) == [s EXCEPT !.epoch = e]

\* Length of the DataLoader batch that starts after c consumed samples of total.
BatchLen(c, total) == Min(batch_size, total - c)

\* --------------------------------------------------------------- all-reduce
RECURSIVE SumGrads(_, _)
SumGrads(p, r) ==
    IF r < 0 THEN Zero ELSE FAdd(p[r].grad, SumGrads(p, r - 1))

\* Mutant of AllReduce: no reduction, every rank keeps its local gradient.
AllReduceLocal(p, r) ==
    IF p[r].grad.fin THEN Fin(worldSize * p[r].grad.val) ELSE NaN

\* The gradient rank r holds after backward(): the mean over all ranks
\* (in units of 1 / world_size: the sum).
AllReduce(p, r) == SumGrads(p, worldSize - 1)

\* Mutant of GradReady: optimizer.step() does not wait for the all-reduce.
GradReadyNoWait(r) == TRUE

\* backward() returns on rank r once the all-reduce it takes part in is complete.
GradReady(r) == avg[r].ready

\* Mutant of GroupComplete: the join does not wait for the peers.
GroupCompleteNoWait == TRUE

\* init_process_group's rendezvous is complete: every rank of the group joined.
GroupComplete == arrived = Ranks

\* Mutant of IsWriter: the rank test is dropped.
IsWriterAny(r) == TRUE

\* rank == 0 (line 149)
IsWriter(r) == r = 0

\* ------------------------------------------------------------------- Init
NoPending == [has |-> FALSE, grad |-> Zero]

NoAvg == [ready |-> FALSE, grad |-> Zero]

NoLog == [epoch |-> 0, train |-> Zero, val |-> Zero]

Init ==
    /\ worldSize \in 1 .. MaxWorld
    /\ datasetSize \in 1 .. MaxData
    /\ testSize = MaxTest
    /\ batch_size \in 1 .. MaxBatch
    /\ epochs \in 1 .. MaxEpochs
    /\ pc \in [Ranks -> {"not_launched", "start"}]
    /\ arrived = {}
    /\ param = [r \in Ranks |-> InitialParam(r)]
    /\ bcast = [sent |-> FALSE, val |-> Zero]
    /\ sampler = [r \in Ranks |-> [seed |-> 0, epoch |-> 0, rank |-> r, num_replicas |-> 0]]
    /\ shuffled = [r \in Ranks |-> << >>]
    /\ indices = [r \in Ranks |-> << >>]
    /\ cursor = [r \in Ranks |-> 0]
    /\ i = [r \in Ranks |-> 0]
    /\ epoch_loss = [r \in Ranks |-> Zero]
    /\ val_loss = [r \in Ranks |-> Zero]
    /\ batch_loss = [r \in Ranks |-> Zero]
    /\ pending = [r \in Ranks |-> NoPending]
    /\ avg = [r \in Ranks |-> NoAvg]
    /\ contrib = [r \in Ranks |-> 0]
    /\ steps = [r \in Ranks |-> 0]
    /\ rounds = 0
    /\ logs = [r \in Ranks |-> [n |-> 0, last |-> NoLog]]
    /\ writes = [r \in Ranks |-> 0]
    /\ checkpoint = [written |-> FALSE, val |-> Zero]

\* ---------------------------------------------------------------- actions
\* Values a batch loss can take on rank r: non-finite parameters give a
\* non-finite loss; finite parameters give any loss.
LossChoices(r) ==
    IF param[r].fin THEN {Fin(v) : v \in Losses} \cup {NaN} ELSE {NaN}

\* Values a validation batch loss can take on rank r: in eval mode the loss is
\* a function of the parameters and the data alone; divergence enters through
\* a training batch.
ValLossChoices(r) ==
    IF param[r].fin THEN {Fin(v) : v \in Losses} ELSE {NaN}

\* Local gradients backward() can produce from loss l.
GradChoices(l) == IF l.fin THEN {Fin(g) : g \in Grads} ELSE {NaN}

\* torch.distributed.init_process_group(...) is entered (lines 132-139).
InitProcessGroup(r) ==
    /\ pc[r] = "start"
    /\ arrived' = arrived \cup {r}
    /\ pc' = [pc EXCEPT ![r] = "Joining"]
    /\ UNCHANGED << inputs, param, bcast, sampler, shuffled, indices, cursor, i,
                    epoch_loss, val_loss, batch_loss, pending, avg,
                    contrib, steps, rounds, logs, writes, checkpoint >>

\* init_process_group returns once every rank joined; create_data_loaders
\* then builds the sampler and the loaders (lines 138-141, 13-45).
JoinComplete(r) ==
    /\ pc[r] = "Joining"
    /\ GroupComplete
    /\ sampler' = [sampler EXCEPT ![r] = NewSampler(r)]
    /\ pc' = [pc EXCEPT ![r] = "wrap"]
    /\ UNCHANGED << inputs, arrived, param, bcast, shuffled, indices, cursor, i,
                    epoch_loss, val_loss, batch_loss, pending, avg,
                    contrib, steps, rounds, logs, writes, checkpoint >>

\* init_process_group raises when its timeout elapses before every rank
\* joined; the exception is not caught and the process exits non-zero.
JoinTimeout(r) ==
    /\ pc[r] = "Joining"
    /\ ~GroupComplete
    /\ pc' = [pc EXCEPT ![r] = "failed"]
    /\ UNCHANGED << inputs, arrived, param, bcast, sampler, shuffled, indices,
                    cursor, i, epoch_loss, val_loss, batch_loss,
                    pending, avg, contrib, steps, rounds, logs, writes,
                    checkpoint >>

\* main, lines 66-72: the DistributedDataParallel constructor broadcasts
\* rank 0's parameters to every other rank; optimizer and loss are created.
DDPWrap(r) ==
    /\ pc[r] = "wrap"
    /\ r = 0 \/ bcast.sent
    /\ bcast' = IF r = 0 THEN [sent |-> TRUE, val |-> param[r]] ELSE bcast
    /\ param' = [param EXCEPT ![r] = IF r = 0 THEN param[r] ELSE bcast.val]
    /\ i' = [i EXCEPT ![r] = 0]
    /\ pc' = [pc EXCEPT ![r] = "epoch_top"]
    /\ UNCHANGED << inputs, arrived, sampler, shuffled, indices, cursor,
                    epoch_loss, val_loss, batch_loss, pending, avg,
                    contrib, steps, rounds, logs, writes, checkpoint >>

\* Lines 75-82: the next epoch starts: model.train(), set_epoch(i),
\* epoch_loss = 0, and the iterator over train_loader (the sampler's __iter__).
EpochStart(r) ==
    /\ pc[r] = "epoch_top"
    /\ i[r] < epochs
    /\ LET s == SetEpoch(sampler[r], i[r])
       IN  /\ sampler' = [sampler EXCEPT ![r] = s]
           /\ shuffled' = [shuffled EXCEPT ![r] = RandPerm(datasetSize, EpochSeed(s))]
           /\ indices' = [indices EXCEPT ![r] = SamplerIter(s, datasetSize)]
    /\ epoch_loss' = [epoch_loss EXCEPT ![r] = Zero]
    /\ cursor' = [cursor EXCEPT ![r] = 0]
    /\ pc' = [pc EXCEPT ![r] = "train"]
    /\ UNCHANGED << inputs, arrived, param, bcast, i, val_loss,
                    batch_loss, pending, avg, contrib, steps, rounds, logs,
                    writes, checkpoint >>

\* Line 114: range(epochs) is exhausted, main returns model.module.
LoopExit(r) ==
    /\ pc[r] = "epoch_top"
    /\ i[r] >= epochs
    /\ pc' = [pc EXCEPT ![r] = "returned"]
    /\ UNCHANGED << inputs, arrived, param, bcast, sampler, shuffled, indices,
                    cursor, i, epoch_loss, val_loss, batch_loss,
                    pending, avg, contrib, steps, rounds, logs, writes,
                    checkpoint >>

\* Lines 82-90: the next batch is fetched, zero_grad, forward, loss and
\* backward(): the local gradient is handed to the all-reduce, which completes
\* (and delivers the reduced gradient to every rank) with the last contribution.
ForwardBackward(r) ==
    /\ pc[r] = "train"
    /\ cursor[r] < Len(indices[r])
    /\ \E l \in LossChoices(r) : \E g \in GradChoices(l) :
         LET np == [pending EXCEPT ![r] = [has |-> TRUE, grad |-> g]]
         IN  /\ batch_loss' = [batch_loss EXCEPT ![r] = l]
             /\ IF \A q \in Ranks : np[q].has
                THEN /\ avg' = [q \in Ranks |-> [ready |-> TRUE, grad |-> AllReduce(np, q)]]
                     /\ pending' = [q \in Ranks |-> NoPending]
                     /\ rounds' = rounds + 1
                ELSE /\ pending' = np
                     /\ UNCHANGED << avg, rounds >>
    /\ contrib' = [contrib EXCEPT ![r] = @ + 1]
    /\ pc' = [pc EXCEPT ![r] = "sync"]
    /\ UNCHANGED << inputs, arrived, param, bcast, sampler, shuffled, indices,
                    cursor, i, epoch_loss, val_loss, steps, logs,
                    writes, checkpoint >>

\* Lines 91-94: optimizer.step() with the reduced gradient, then the batch
\* loss is added to epoch_loss.
OptStep(r) ==
    /\ pc[r] = "sync"
    /\ GradReady(r)
    /\ LET len == BatchLen(cursor[r], Len(indices[r]))
       IN  /\ epoch_loss' = [epoch_loss EXCEPT ![r] = FAdd(@, LossPerSample(batch_loss[r], len))]
           /\ cursor' = [cursor EXCEPT ![r] = @ + len]
    /\ param' = [param EXCEPT ![r] = FSub(@, avg[r].grad)]
    /\ avg' = [avg EXCEPT ![r] = NoAvg]
    /\ batch_loss' = [batch_loss EXCEPT ![r] = Zero]
    /\ steps' = [steps EXCEPT ![r] = @ + 1]
    /\ pc' = [pc EXCEPT ![r] = "train"]
    /\ UNCHANGED << inputs, arrived, bcast, sampler, shuffled, indices, i,
                    val_loss, pending, contrib, rounds, logs, writes,
                    checkpoint >>

\* Lines 96-100: the train iterator is exhausted; model.eval(), val_loss = 0.
TrainDone(r) ==
    /\ pc[r] = "train"
    /\ cursor[r] >= Len(indices[r])
    /\ val_loss' = [val_loss EXCEPT ![r] = Zero]
    /\ pc' = [pc EXCEPT ![r] = "validate"]
    /\ UNCHANGED << inputs, arrived, param, bcast, sampler, shuffled, indices,
                    cursor, i, epoch_loss, batch_loss, pending, avg, contrib,
                    steps, rounds, logs, writes, checkpoint >>

\* Lines 101-110: one batch of the test loader, without gradients:
\* val_loss += batch_loss_scalar / x.shape[0].
ValStep(acc, c, l) == FAdd(acc, LossPerSample(l, BatchLen(c, testSize)))

\* The loop of lines 101-110 from c consumed samples on, every batch loss l.
RECURSIVE ValLoop(_, _, _)
ValLoop(acc, c, l) ==
    IF c >= testSize THEN acc
    ELSE ValLoop(ValStep(acc, c, l), c + BatchLen(c, testSize), l)

\* Lines 101-112 and the loop increment: the validation pass over the whole
\* test set (local to the rank: no gradient, no collective), then the
\* epoch's line is printed.  A non-finite batch loss makes the sum non-finite
\* whichever batch it comes from.
Validate(r) ==
    /\ pc[r] = "validate"
    /\ \E l \in ValLossChoices(r) :
         /\ val_loss' = [val_loss EXCEPT ![r] = ValLoop(@, 0, l)]
         /\ logs' = [logs EXCEPT ![r] =
                       [n |-> @.n + 1,
                        last |-> [epoch |-> i[r], train |-> epoch_loss[r],
                                  val |-> val_loss'[r]]]]
    /\ i' = [i EXCEPT ![r] = @ + 1]
    /\ pc' = [pc EXCEPT ![r] = "epoch_top"]
    /\ UNCHANGED << inputs, arrived, param, bcast, sampler, shuffled, indices,
                    cursor, epoch_loss, batch_loss, pending, avg, contrib, steps,
                    rounds, writes, checkpoint >>

\* Lines 148-150 on the writer: torch.save(model.state_dict(), 'model.pt').
SaveCheckpoint(r) ==
    /\ pc[r] = "returned"
    /\ IsWriter(r)
    /\ writes' = [writes EXCEPT ![r] = @ + 1]
    /\ checkpoint' = [written |-> TRUE, val |-> param[r]]
    /\ pc' = [pc EXCEPT ![r] = "saved"]
    /\ UNCHANGED << inputs, arrived, param, bcast, sampler, shuffled, indices,
                    cursor, i, epoch_loss, val_loss, batch_loss,
                    pending, avg, contrib, steps, rounds, logs >>

\* The end of the script: the process exits with code 0.
Exit(r) ==
    /\ \/ pc[r] = "returned" /\ ~IsWriter(r)
       \/ pc[r] = "saved"
    /\ pc' = [pc EXCEPT ![r] = "exited"]
    /\ UNCHANGED << inputs, arrived, param, bcast, sampler, shuffled, indices,
                    cursor, i, epoch_loss, val_loss, batch_loss,
                    pending, avg, contrib, steps, rounds, logs, writes,
                    checkpoint >>

\* Every step of the process of rank r but the failure of its join.
Worker(r) ==
    \/ InitProcessGroup(r)
    \/ JoinComplete(r)
    \/ DDPWrap(r)
    \/ EpochStart(r)
    \/ LoopExit(r)
    \/ ForwardBackward(r)
    \/ OptStep(r)
    \/ TrainDone(r)
    \/ Validate(r)
    \/ SaveCheckpoint(r)
    \/ Exit(r)

Next ==
    \/ \E r \in Ranks : InitProcessGroup(r)
    \/ \E r \in Ranks : JoinComplete(r)
    \/ \E r \in Ranks : JoinTimeout(r)
    \/ \E r \in Ranks : DDPWrap(r)
    \/ \E r \in Ranks : EpochStart(r)
    \/ \E r \in Ranks : LoopExit(r)
    \/ \E r \in Ranks : ForwardBackward(r)
    \/ \E r \in Ranks : OptStep(r)
    \/ \E r \in Ranks : TrainDone(r)
    \/ \E r \in Ranks : Validate(r)
    \/ \E r \in Ranks : SaveCheckpoint(r)
    \/ \E r \in Ranks : Exit(r)

Spec == Init /\ [][Next]_vars

\* ------------------------------------------------------------ predicates
\* Rank r is past the DistributedDataParallel constructor.
InLoop(r) ==
    pc[r] \in {"epoch_top", "train", "sync", "validate", "returned", "saved", "exited"}

\* Rank r holds the index sequence of an iterator over train_loader.
HasIter(r) == Len(indices[r]) > 0

\* Two different ranks hold the index sequences of the same epoch.
SameEpoch(r1, r2) ==
    /\ r1 # r2
    /\ HasIter(r1) /\ HasIter(r2)
    /\ sampler[r1].epoch = sampler[r2].epoch

Elems(seq) == {seq[k] : k \in 1 .. Len(seq)}

SomeAbsent == \E r \in Ranks : pc[r] = "not_launched"

SomeFailed == \E r \in Ranks : pc[r] = "failed"

AllExited == \A r \in Ranks : pc[r] = "exited"

\* Batches (and so all-reduces) of one epoch: the same on every rank.
BatchesPerEpoch == CeilDiv(NumSamples(datasetSize, worldSize), batch_size)

\* The sum of loss / len over the batches that make up the first c samples,
\* every loss being the unit loss.
UnitLossSum(c) ==
    (c \div batch_size) * (LossScale \div batch_size)
    + (IF c % batch_size > 0 THEN LossScale \div (c % batch_size) ELSE 0)

\* ------------------------------------------------------------------ claims

\* C1 (replicas): ranks that are past the DDP constructor and have run the same
\* number of optimizer steps hold identical parameters.
C1_ReplicasAgree ==
    \A r1 \in Ranks : \A r2 \in Ranks :
        (InLoop(r1) /\ InLoop(r2) /\ steps[r1] = steps[r2]) => param[r1] = param[r2]

\* C1 (mutation): in the training loop a rank's parameters change only in an
\* optimizer step taken with the reduced gradient of a completed all-reduce.
C1_MutatedOnlyInStep ==
    \A r \in Ranks :
        (InLoop(r) /\ param'[r] # param[r]) =>
            /\ pc[r] = "sync"
            /\ avg[r].ready
            /\ steps'[r] = steps[r] + 1
            /\ rounds >= steps'[r]
            /\ param'[r] = FSub(param[r], avg[r].grad)

\* C1: parameter replica convergence: after every completed optimizer step all
\* ranks hold identical parameters, and parameters are mutated only in the
\* optimizer step that follows a completed gradient-averaging barrier.
C1_ReplicaConvergence == [](C1_ReplicasAgree) /\ [][C1_MutatedOnlyInStep]_vars

\* C1 witness: two ranks drew different local gradients (1 and 2), both took
\* the optimizer step with their sum and agree.
C1_Witness ==
    /\ worldSize = 2
    /\ steps[0] = 1 /\ steps[1] = 1
    /\ param[0] = Fin(InitialParam(0).val - 3)
    /\ param[1] = param[0]

\* C2 as claimed: for every dataset size, divisible by the world size or not,
\* the index sequences of two ranks for one epoch are disjoint and equally long.
C2_DisjointAlways ==
    \A r1 \in Ranks : \A r2 \in Ranks :
        SameEpoch(r1, r2) =>
            /\ Elems(indices[r1]) \cap Elems(indices[r2]) = {}
            /\ Len(indices[r1]) = Len(indices[r2])

\* C2 amended: the index sequences of all ranks for one epoch have the length
\* ceil(datasetSize / worldSize); they are pairwise disjoint when datasetSize is
\* divisible by worldSize.
C2_EqualLengthDisjointIfDivisible ==
    \A r1 \in Ranks : \A r2 \in Ranks :
        SameEpoch(r1, r2) =>
            /\ Len(indices[r1]) = NumSamples(datasetSize, worldSize)
            /\ Len(indices[r2]) = NumSamples(datasetSize, worldSize)
            /\ (datasetSize % worldSize = 0) =>
                   Elems(indices[r1]) \cap Elems(indices[r2]) = {}

\* C2 witness: two ranks hold the sequences of the second epoch of a dataset
\* that divides evenly, and together they cover the whole index range.
C2_Witness ==
    /\ worldSize = 2
    /\ datasetSize = 2
    /\ SameEpoch(0, 1)
    /\ sampler[0].epoch = 1
    /\ Elems(indices[0]) \cup Elems(indices[1]) = 0 .. (datasetSize - 1)

\* C3: partition determinism: the sequence a rank holds is the function of
\* (datasetSize, rank, worldSize, seed 42, epoch number) alone, and two ranks
\* holding the sequences of one epoch derived them from the same permutation
\* of the whole index range.
C3_Determinism ==
    /\ \A r \in Ranks :
         HasIter(r) =>
            /\ Elems(shuffled[r]) = 0 .. (datasetSize - 1)
            /\ Len(shuffled[r]) = datasetSize
            /\ indices[r] = SamplerIter([seed |-> SamplerSeedConst,
                                         epoch |-> sampler[r].epoch,
                                         rank |-> r,
                                         num_replicas |-> worldSize], datasetSize)
    /\ \A r1 \in Ranks : \A r2 \in Ranks :
         SameEpoch(r1, r2) => shuffled[r1] = shuffled[r2]

\* C3 witness: two ranks hold the sequences of the second epoch of a dataset of
\* more than one sample.
C3_Witness ==
    /\ worldSize = 2
    /\ datasetSize >= 2
    /\ SameEpoch(0, 1)
    /\ sampler[0].epoch = 1

\* C4: designated-writer-only checkpoint: only rank 0 calls torch.save, at most
\* once, and only after it completed all epochs; the other ranks never do.
C4_WriterOnly ==
    /\ \A r \in Ranks :
         /\ writes[r] <= 1
         /\ (r # 0) => writes[r] = 0
         /\ (writes[r] > 0) => (i[r] = epochs /\ logs[r].n = epochs)
    /\ checkpoint.written => writes[0] = 1

\* C4 witness: a group of two ran to the end and rank 0 wrote the checkpoint.
C4_Witness ==
    /\ worldSize = 2
    /\ AllExited
    /\ writes[0] = 1
    /\ checkpoint.written

\* C5: barrier ordering: the n-th all-reduce completes only after every rank
\* contributed its n-th gradient, and no rank takes its n-th optimizer step
\* before the n-th all-reduce completed.
C5_BarrierOrdering ==
    \A r \in Ranks : \A q \in Ranks :
        /\ steps[r] <= rounds
        /\ rounds <= contrib[q]
        /\ avg[r].ready => steps[r] < rounds

\* C5 witness: of two ranks, one took the optimizer step of the first batch
\* while the other, having contributed, has not yet.
C5_Witness ==
    /\ worldSize = 2
    /\ steps[0] = 1 /\ steps[1] = 0
    /\ contrib[1] = 1
    /\ rounds = 1

\* C6: join timeout: when some rank is never launched, no rank gets past the
\* join, and a rank blocked in the join cannot return from it and has its
\* timeout armed: the only step it can take is to fail with the timeout error.
C6_JoinTimeout ==
    SomeAbsent =>
        \A r \in Ranks :
            /\ pc[r] \in {"not_launched", "start", "Joining", "failed"}
            /\ pc[r] = "Joining" => (ENABLED JoinTimeout(r) /\ ~ENABLED Worker(r))

\* C6 witness: a rank is missing and a rank that joined has failed.
C6_Witness ==
    /\ worldSize = 2
    /\ pc[0] = "not_launched"
    /\ pc[1] = "failed"

\* C7: teardown after checkpoint: a rank other than 0 has exited only if rank 0
\* has written the checkpoint.
C7_TeardownAfterWrite ==
    \A r \in Ranks : (r # 0 /\ pc[r] = "exited") => checkpoint.written

\* C8: numeric divergence is fatal: a rank whose batch loss is non-finite takes
\* no optimizer step with it.
C8_NonFiniteLossFatal ==
    [][\A r \in Ranks :
          (pc[r] = "sync" /\ ~batch_loss[r].fin) => steps'[r] = steps[r]]_vars

\* C9: epoch state machine: a rank in the loop has printed exactly one line per
\* completed iteration, the last one carrying that iteration's index and sums;
\* it trains on the partition of the current epoch number with an accumulator
\* that started at 0; validates only after the train iterator is exhausted,
\* with a fresh accumulator; and leaves the loop only after epochs iterations.
C9_EpochStateMachine ==
    \A r \in Ranks :
        /\ InLoop(r) => (logs[r].n = i[r] /\ i[r] <= epochs)
        /\ (InLoop(r) /\ logs[r].n > 0) => logs[r].last.epoch = logs[r].n - 1
        /\ pc[r] \in {"train", "sync", "validate"} =>
              /\ i[r] < epochs
              /\ sampler[r].epoch = i[r]
              /\ indices[r] = SamplerIter(sampler[r], datasetSize)
              /\ epoch_loss[r].fin => epoch_loss[r].val = UnitLossSum(cursor[r])
        /\ pc[r] = "validate" =>
              /\ cursor[r] = Len(indices[r])
              /\ val_loss[r] = Zero
        /\ (pc[r] = "epoch_top" /\ i[r] > 0) =>
              /\ cursor[r] = Len(indices[r])
              /\ logs[r].last.train = epoch_loss[r]
              /\ logs[r].last.val = val_loss[r]
              /\ val_loss[r].fin => val_loss[r].val > 0
        /\ pc[r] \in {"returned", "saved", "exited"} =>
              (i[r] = epochs /\ logs[r].n = epochs)

\* C9 witness: a rank ran two epochs to the end and its last line is that of
\* epoch 1 with finite sums.
C9_Witness ==
    /\ epochs = 2
    /\ pc[0] = "exited"
    /\ logs[0].n = 2
    /\ logs[0].last.epoch = 1
    /\ logs[0].last.train.fin /\ logs[0].last.train.val > 0
    /\ logs[0].last.val.fin /\ logs[0].last.val.val > 0

\* C10 (counts): a rank that exhausted the train iterator of epoch i has entered
\* (i + 1) * BatchesPerEpoch all-reduces, whatever its rank.
C10_SameBarrierCount ==
    \A r \in Ranks :
        pc[r] = "validate" => contrib[r] = (i[r] + 1) * BatchesPerEpoch

\* C10: barrier liveness: every rank enters the same number of all-reduces in
\* each epoch, and while every rank is launched and none has failed, either all
\* ranks have finished or some rank can take a step: no state has a rank
\* blocked at a barrier that its peers will never enter.  (Every step advances
\* a rank through its finite program, so the group then reaches the end.)
C10_BarrierLiveness ==
    /\ C10_SameBarrierCount
    /\ (~SomeAbsent /\ ~SomeFailed) =>
           (AllExited \/ \E r \in Ranks : ENABLED Worker(r))

\* C10 witness: a group of two finished on a dataset that does not divide
\* evenly, in more than one batch per epoch.
C10_Witness ==
    /\ worldSize = 2
    /\ datasetSize % worldSize # 0
    /\ BatchesPerEpoch > 1
    /\ AllExited

====
